---- MODULE Spec2Model ----
(***************************************************************************)
(* Model of examples/common/python/utility/utility.py: the work order      *)
(* response decryption helpers decrypt_data, decrypted_response and        *)
(* verify_data_hash.                                                       *)
(*                                                                         *)
(* Python values are modelled as tagged records.  Keys and IVs are         *)
(* [t, v] records (t the Python type, v a name); None is PyNone.  Text     *)
(* and byte values are [kind, chars, key, iv] records: chars is the        *)
(* sequence of characters, kind tells which conversions the value went     *)
(* through ("str" -> "bytes" by str.encode, "str" -> "b64bytes" by         *)
(* base64_to_byte_array, -> "plainbytes" by SKENC_DecryptMessage under     *)
(* key/iv, -> "plainstr" by byte_array_to_string).                         *)
(***************************************************************************)
EXTENDS Integers, Sequences, FiniteSets, TLC

VARIABLES
    outData,      \* input_json['result']['outData'], the caller's list (mutable)
    orig,         \* the value of outData when decrypted_response was called
    ctx,          \* the arguments session_key, session_iv, data_key, data_iv
    i,            \* local i of decrypted_response
    do_decrypt,   \* local do_decrypt of decrypted_response
    data_encryption_key_byte,  \* local of decrypted_response (Unbound at first)
    pc,           \* "loop", "returned" or "raised"
    ret,          \* the object decrypted_response returned
    err,          \* where an exception came from, when pc = "raised"
    ddcalls,      \* decrypt_data invocations made by decrypted_response
    dd,           \* a stand-alone call of decrypt_data: arguments and outcome
    vh            \* a stand-alone call of verify_data_hash: arguments and outcome

vars == <<outData, orig, ctx, i, do_decrypt, data_encryption_key_byte, pc, ret,
          err, ddcalls, dd, vh>>

respVars == <<outData, orig, ctx, i, do_decrypt, data_encryption_key_byte, pc,
              ret, err, ddcalls>>

\* Longest outData sequence explored.
MaxItems == 3

\* ------------------------------------------------------------------------
\* Python values

PyNone == [t |-> "NoneType", v |-> "None"]

Unbound == [t |-> "unbound", v |-> ""]

Key(name) == [t |-> "key", v |-> name]

IV(name) == [t |-> "iv", v |-> name]

PyStr(s) == [kind |-> "str", chars |-> s, key |-> PyNone, iv |-> PyNone]

\* str.encode('UTF-8') of a data string: the same characters, as bytes
encode(d) == [d EXCEPT !.kind = "bytes"]

\* str.encode('UTF-8') of the short iv / encryptedDataEncryptionKey fields
encodeField(s) == [t |-> "bytes", v |-> s]

\* "", "aGk=" (base64 of "hi"), "plaintext-bytes" (not base64)
DataStrings ==
    { <<>>,
      <<"a", "G", "k", "=">>,
      <<"p", "l", "a", "i", "n", "t", "e", "x", "t", "-", "b", "y", "t", "e", "s">> }

EKeys == {"", "null", "-", "k1"}

ItemIVs == {"iv1"}

Items == [data : {PyStr(s) : s \in DataStrings},
          iv : ItemIVs,
          encryptedDataEncryptionKey : EKeys]

SeqsUpTo(S, n) == UNION {[1..k -> S] : k \in 0..n}

Contexts ==
    {[session_key |-> Key("SK"), session_iv |-> siv, data_key |-> d[1], data_iv |-> d[2]] :
        siv \in {IV("SIV"), PyNone},
        d \in {<<PyNone, PyNone>>, <<Key("DK"), PyNone>>, <<Key("DK"), IV("DIV")>>}}

\* The object the caller passed as input_json['result']['outData'].
InputRef == "input_json.result.outData"

\* ------------------------------------------------------------------------
\* External primitives, by what they do to a value

DefaultIV == [t |-> "iv", v |-> "default"]

\* crypto.base64_to_byte_array
base64_to_byte_array(data) == [data EXCEPT !.kind = "b64bytes"]

\* crypto.SKENC_DecryptMessage(key, [iv,] bytes), when it accepts its input
SKENC_DecryptMessage(key, iv, data_byte) ==
    [kind |-> "plainbytes", chars |-> data_byte.chars, key |-> key, iv |-> iv]

\* The outcomes of crypto.SKENC_DecryptMessage (TRUE: it returns, FALSE: it
\* raises).  It rejects ciphertext, key or iv as it sees fit, and it cannot
\* take None for a key.
PrimitiveOutcomes(key) == IF key.t = "key" THEN BOOLEAN ELSE {FALSE}

\* crypto.byte_array_to_string
byte_array_to_string(b) == [b EXCEPT !.kind = "plainstr"]

B64Alphabet ==
    {"A", "B", "C", "D", "E", "F", "G", "H", "I", "J", "K", "L", "M",
     "N", "O", "P", "Q", "R", "S", "T", "U", "V", "W", "X", "Y", "Z",
     "a", "b", "c", "d", "e", "f", "g", "h", "i", "j", "k", "l", "m",
     "n", "o", "p", "q", "r", "s", "t", "u", "v", "w", "x", "y", "z",
     "0", "1", "2", "3", "4", "5", "6", "7", "8", "9", "+", "/"}

\* base64.b64decode(data) (validate=False): characters outside the alphabet
\* are skipped, a complete pad sequence ends the input, and the call raises
\* unless the data characters read so far make whole quads.  TRUE when the
\* call returns.
RECURSIVE b64decode_returns(_, _, _, _)
b64decode_returns(s, k, quad_pos, pads) ==
    IF k > Len(s) THEN quad_pos = 0
    ELSE IF s[k] = "=" THEN
        IF quad_pos >= 2 /\ quad_pos + pads + 1 >= 4 THEN TRUE
        ELSE b64decode_returns(s, k + 1, quad_pos,
                               IF quad_pos >= 2 THEN pads + 1 ELSE pads)
    ELSE IF s[k] \notin B64Alphabet THEN b64decode_returns(s, k + 1, quad_pos, pads)
    ELSE b64decode_returns(s, k + 1, (quad_pos + 1) % 4, 0)

\* decrypt_data with the "iv is not None" test dropped: the iv is always passed
decrypt_data_always_iv(encryption_key, data, iv, ok) ==
    IF data.chars = <<>>
    THEN [raised |-> FALSE, ret |-> data, b64 |-> <<>>, prim |-> <<>>]
    ELSE LET data_byte == base64_to_byte_array(data)
             call == [key |-> encryption_key, passes_iv |-> TRUE,
                      iv |-> iv, data |-> data_byte]
             decrypt_result == SKENC_DecryptMessage(call.key, call.iv, call.data)
         IN  [raised |-> ~ok,
              ret |-> IF ok THEN byte_array_to_string(decrypt_result) ELSE PyNone,
              b64 |-> <<data>>,
              prim |-> <<call>>]

\* ------------------------------------------------------------------------
\* decrypt_data(encryption_key, data, iv=None).  ok is the outcome of the
\* symmetric-decrypt primitive (FALSE: it raises).  The result tells what was
\* returned or that the call raised, and which external calls were made.
decrypt_data(encryption_key, data, iv, ok) ==
    IF data.chars = <<>>
    THEN [raised |-> FALSE, ret |-> data, b64 |-> <<>>, prim |-> <<>>]
    ELSE LET data_byte == base64_to_byte_array(data)
             call == IF iv # PyNone
                     THEN [key |-> encryption_key, passes_iv |-> TRUE,
                           iv |-> iv, data |-> data_byte]
                     ELSE [key |-> encryption_key, passes_iv |-> FALSE,
                           iv |-> DefaultIV, data |-> data_byte]
             decrypt_result == SKENC_DecryptMessage(call.key, call.iv, call.data)
         IN  [raised |-> ~ok,
              ret |-> IF ok THEN byte_array_to_string(decrypt_result) ELSE PyNone,
              b64 |-> <<data>>,
              prim |-> <<call>>]

\* ------------------------------------------------------------------------
\* decrypted_response

\* KeySelection with line 194 (iv = session_iv) missing: the item's own iv
\* stays in use with the session key
KeySelection_item_iv(item, c, flag, keybyte) ==
    LET iv == encodeField(item.iv)
        e_key == encodeField(item.encryptedDataEncryptionKey)
    IN  IF e_key.v = "" \/ e_key = encodeField("null")
        THEN [do_decrypt |-> flag, key |-> c.session_key, iv |-> iv]
        ELSE IF e_key = encodeField("-")
        THEN [do_decrypt |-> FALSE, key |-> keybyte, iv |-> iv]
        ELSE [do_decrypt |-> flag, key |-> c.data_key, iv |-> c.data_iv]

\* KeySelection with do_decrypt decided anew for every item
KeySelection_per_item(item, c, flag, keybyte) ==
    LET iv == encodeField(item.iv)
        e_key == encodeField(item.encryptedDataEncryptionKey)
    IN  IF e_key.v = "" \/ e_key = encodeField("null")
        THEN [do_decrypt |-> TRUE, key |-> c.session_key, iv |-> c.session_iv]
        ELSE IF e_key = encodeField("-")
        THEN [do_decrypt |-> FALSE, key |-> keybyte, iv |-> iv]
        ELSE [do_decrypt |-> TRUE, key |-> c.data_key, iv |-> c.data_iv]

\* lines 190-199: the key, the iv and the do_decrypt flag after the item's
\* encryptedDataEncryptionKey was examined
KeySelection(item, c, flag, keybyte) ==
    LET iv == encodeField(item.iv)
        e_key == encodeField(item.encryptedDataEncryptionKey)
    IN  IF e_key.v = "" \/ e_key = encodeField("null")
        THEN [do_decrypt |-> flag, key |-> c.session_key, iv |-> c.session_iv]
        ELSE IF e_key = encodeField("-")
        THEN [do_decrypt |-> FALSE, key |-> keybyte, iv |-> iv]
        ELSE [do_decrypt |-> flag, key |-> c.data_key, iv |-> c.data_iv]

\* StoreData writing into a copy: the caller's list keeps its items
StoreData_copy(list, idx, value) == list

\* StoreData with the index stuck at the first item
StoreData_first(list, idx, value) == [list EXCEPT ![1].data = value]

\* input_json_params['outData'][i]['data'] = value (idx is i + 1: 1-based)
StoreData(list, idx, value) == [list EXCEPT ![idx].data = value]

\* return input_json_params['outData']
ReturnValue == InputRef

InitResp ==
    /\ outData \in SeqsUpTo(Items, MaxItems)
    /\ orig = outData
    /\ ctx \in Contexts
    /\ i = 0
    /\ do_decrypt = TRUE
    /\ data_encryption_key_byte = Unbound
    /\ pc = "loop"
    /\ ret = "none"
    /\ err = "none"
    /\ ddcalls = <<>>

\* One iteration of the for loop (lines 188-210) that takes the plaintext
\* branch (lines 201-203).  The item is stored first; evaluating the log
\* argument base64.b64decode(data) may then raise.
Plaintext ==
    /\ pc = "loop"
    /\ i < Len(outData)
    /\ LET item == outData[i + 1]
           data == encode(item.data)
           sel == KeySelection(item, ctx, do_decrypt, data_encryption_key_byte)
       IN  /\ ~sel.do_decrypt
           /\ do_decrypt' = sel.do_decrypt
           /\ data_encryption_key_byte' = sel.key
           /\ outData' = StoreData(outData, i + 1, data)
           /\ IF b64decode_returns(data.chars, 1, 0, 0)
              THEN /\ i' = i + 1
                   /\ UNCHANGED <<pc, err>>
              ELSE /\ pc' = "raised"
                   /\ err' = "b64decode"
                   /\ UNCHANGED i
    /\ UNCHANGED <<orig, ctx, ret, ddcalls, dd, vh>>

\* AfterDecrypt with the exception caught: the item is skipped and the loop
\* goes on
AfterDecrypt_swallow(r) ==
    /\ outData' = IF r.raised THEN outData ELSE StoreData(outData, i + 1, r.ret)
    /\ i' = i + 1
    /\ UNCHANGED <<pc, err>>

\* The iteration's outcome on the decrypt branch (lines 205-210) once
\* decrypt_data came back with result r.
AfterDecrypt(r) ==
    IF r.raised
    THEN /\ pc' = "raised"
         /\ err' = "decrypt"
         /\ UNCHANGED <<outData, i>>
    ELSE /\ outData' = StoreData(outData, i + 1, r.ret)
         /\ i' = i + 1
         /\ UNCHANGED <<pc, err>>

\* One iteration of the for loop that takes the decrypt branch.
Decrypt ==
    /\ pc = "loop"
    /\ i < Len(outData)
    /\ LET item == outData[i + 1]
           sel == KeySelection(item, ctx, do_decrypt, data_encryption_key_byte)
       IN  /\ sel.do_decrypt
           /\ do_decrypt' = sel.do_decrypt
           /\ data_encryption_key_byte' = sel.key
           /\ \E ok \in PrimitiveOutcomes(sel.key) :
                LET r == decrypt_data(sel.key, item.data, sel.iv, ok)
                IN  /\ ddcalls' = Append(ddcalls,
                            [pos |-> i + 1, key |-> sel.key, data |-> item.data,
                             iv |-> sel.iv, result |-> r])
                    /\ AfterDecrypt(r)
    /\ UNCHANGED <<orig, ctx, ret, dd, vh>>

\* line 211
Return ==
    /\ pc = "loop"
    /\ i = Len(outData)
    /\ pc' = "returned"
    /\ ret' = ReturnValue
    /\ UNCHANGED <<outData, orig, ctx, i, do_decrypt, data_encryption_key_byte,
                   err, ddcalls, dd, vh>>

Idle == [pc |-> "idle"]

\* decrypted_response is not running (the stand-alone calls' specifications)
RespIdle ==
    /\ outData = <<>>
    /\ orig = <<>>
    /\ ctx = [session_key |-> Key("SK"), session_iv |-> PyNone,
              data_key |-> PyNone, data_iv |-> PyNone]
    /\ i = 0
    /\ do_decrypt = TRUE
    /\ data_encryption_key_byte = Unbound
    /\ pc = "idle"
    /\ ret = "none"
    /\ err = "none"
    /\ ddcalls = <<>>

Init == InitResp /\ dd = Idle /\ vh = Idle

Next == Plaintext \/ Decrypt \/ Return

Spec == Init /\ [][Next]_vars

\* ------------------------------------------------------------------------
\* decrypt_data called on its own

\* the data strings above, "aGVsbG8=" (base64 of "hello") and "!!"
DDData ==
    DataStrings \cup
    { <<"a", "G", "V", "s", "b", "G", "8", "=">>, <<"!", "!">> }

InitDD ==
    /\ RespIdle
    /\ vh = Idle
    /\ dd \in [pc : {"call"},
               encryption_key : {Key("SK"), Key("DK"), PyNone},
               data : {PyStr(s) : s \in DDData},
               iv : {IV("SIV"), IV("DIV"), PyNone}]

DecryptDataCall ==
    /\ dd.pc = "call"
    /\ \E ok \in PrimitiveOutcomes(dd.encryption_key) :
        dd' = [pc |-> "done", encryption_key |-> dd.encryption_key,
               data |-> dd.data, iv |-> dd.iv,
               result |-> decrypt_data(dd.encryption_key, dd.data, dd.iv, ok)]
    /\ UNCHANGED <<respVars, vh>>

NextDD == DecryptDataCall

SpecDD == InitDD /\ [][NextDD]_vars

\* ------------------------------------------------------------------------
\* verify_data_hash

\* Longest data_hash string explored.
MaxHashLen == 2

Msgs == {"m1", "m2", "m3"}

\* crypto.compute_message_hash(data.encode("UTF-8")): a digest per message
\* (one byte long here)
compute_data_hash(data) ==
    CASE data = "m1" -> <<171>>
      [] data = "m2" -> <<27>>
      [] OTHER -> <<186>>

HexDigitsLower == <<"0", "1", "2", "3", "4", "5", "6", "7",
                    "8", "9", "a", "b", "c", "d", "e", "f">>

HexDigitsUpper == <<"0", "1", "2", "3", "4", "5", "6", "7",
                    "8", "9", "A", "B", "C", "D", "E", "F">>

\* hex_utils.byte_array_to_hex_str: two hex digits per byte; lower says which
\* case the helper writes the letters in
byte_array_to_hex_str(bytes, lower) ==
    LET digits == IF lower THEN HexDigitsLower ELSE HexDigitsUpper
    IN  [k \in 1..(2 * Len(bytes)) |->
            LET b == bytes[(k + 1) \div 2]
            IN  IF k % 2 = 1 THEN digits[(b \div 16) + 1] ELSE digits[(b % 16) + 1]]

\* str.upper() on one character
upperChar(c) ==
    CASE c = "a" -> "A"
      [] c = "b" -> "B"
      [] c = "c" -> "C"
      [] c = "d" -> "D"
      [] c = "e" -> "E"
      [] c = "f" -> "F"
      [] OTHER -> c

\* str.upper()
upper(s) == [k \in 1..Len(s) |-> upperChar(s[k])]

\* verify_data_hash with line 225 (data_hash = data_hash.upper()) missing
verify_data_hash_no_upper(msg, data_hash, lower) ==
    LET msg_hash == compute_data_hash(msg)
        msg_hash_hex == upper(byte_array_to_hex_str(msg_hash, lower))
    IN  IF msg_hash_hex = data_hash THEN TRUE ELSE FALSE

\* verify_data_hash(msg, data_hash)
verify_data_hash(msg, data_hash, lower) ==
    LET msg_hash == compute_data_hash(msg)
        msg_hash_hex == upper(byte_array_to_hex_str(msg_hash, lower))
        data_hash_up == upper(data_hash)
    IN  IF msg_hash_hex = data_hash_up THEN TRUE ELSE FALSE

HashChars == {"a", "A", "b", "B", "1"}

InitVH ==
    /\ RespIdle
    /\ dd = Idle
    /\ vh \in [pc : {"call"},
               msg : Msgs,
               data_hash : SeqsUpTo(HashChars, MaxHashLen),
               lower : BOOLEAN]

VerifyCall ==
    /\ vh.pc = "call"
    /\ vh' = [pc |-> "done", msg |-> vh.msg, data_hash |-> vh.data_hash,
              lower |-> vh.lower,
              ret |-> verify_data_hash(vh.msg, vh.data_hash, vh.lower)]
    /\ UNCHANGED <<respVars, dd>>

NextVH == VerifyCall

SpecVH == InitVH /\ [][NextVH]_vars

\* ------------------------------------------------------------------------
\* Properties of decrypted_response (specification Spec)

\* the positions the loop has finished with
Completed == 1..i

\* the positions the loop has looked at: the finished ones and the one whose
\* iteration raised
Examined == IF pc = "raised" THEN 1..(i + 1) ELSE 1..i

\* the decrypt_data invocations made for position p
CallsAt(p) == {k \in 1..Len(ddcalls) : ddcalls[k].pos = p}

EKeyOf(p) == orig[p].encryptedDataEncryptionKey

SessionEKeys == {"", "null"}

\* the locals after the loop examined items[1..p], when it gets that far
RECURSIVE SelAfter(_, _, _)
SelAfter(items, c, p) ==
    IF p = 0
    THEN [do_decrypt |-> TRUE, key |-> Unbound, iv |-> PyNone]
    ELSE LET prev == SelAfter(items, c, p - 1)
         IN  KeySelection(items[p], c, prev.do_decrypt, prev.key)

\* what the run did with position p: plaintext, or decrypt with a key and iv
Treatment(p) ==
    IF CallsAt(p) = {}
    THEN [do_decrypt |-> FALSE, key |-> PyNone, iv |-> PyNone]
    ELSE LET c == ddcalls[CHOOSE k \in CallsAt(p) : TRUE]
         IN  [do_decrypt |-> TRUE, key |-> c.key, iv |-> c.iv]

TreatmentOf(sel) ==
    IF sel.do_decrypt
    THEN [do_decrypt |-> TRUE, key |-> sel.key, iv |-> sel.iv]
    ELSE [do_decrypt |-> FALSE, key |-> PyNone, iv |-> PyNone]

\* C1: what is done with item p (plaintext or decrypt, and with which key and
\* iv) is the same in every response that has the same item at position p,
\* whatever the items before it are.
C1_DecisionIndependentOfEarlierItems ==
    \A p \in Examined :
        \A pre \in [1..(p - 1) -> Items] :
            LET other == [k \in 1..p |-> IF k < p THEN pre[k] ELSE orig[p]]
            IN  TreatmentOf(SelAfter(other, ctx, p)) = Treatment(p)

\* C2: an item whose encryptedDataEncryptionKey is "-" completes, whatever its
\* data is, with its data kept (as bytes) and without a decrypt_data call.
C2_DashItemKeptAndCompletes ==
    \A p \in Examined :
        EKeyOf(p) = "-" =>
            /\ p \in Completed
            /\ outData[p].data = encode(orig[p].data)
            /\ CallsAt(p) = {}

\* C3: every decrypt_data call gets the item's data and, for an empty or
\* "null" encryptedDataEncryptionKey, session_key and session_iv, for any
\* other one data_key and data_iv; never the item's own iv.
C3_KeySelection ==
    \A k \in 1..Len(ddcalls) :
        LET c == ddcalls[k]
        IN  /\ EKeyOf(c.pos) # "-"
            /\ c.data = orig[c.pos].data
            /\ c.iv # encodeField(orig[c.pos].iv)
            /\ EKeyOf(c.pos) \in SessionEKeys =>
                    c.key = ctx.session_key /\ c.iv = ctx.session_iv
            /\ EKeyOf(c.pos) \notin SessionEKeys =>
                    c.key = ctx.data_key /\ c.iv = ctx.data_iv

\* C3 witness: a run that decrypted one item with the session key and another
\* with the one-time data key
C3_Witness ==
    /\ pc = "returned"
    /\ \E a, b \in 1..Len(ddcalls) :
        /\ ddcalls[a].pos < ddcalls[b].pos
        /\ ddcalls[a].key = Key("DK")
        /\ ddcalls[b].key = Key("SK")
        /\ ddcalls[b].iv = IV("SIV")

\* C4: an item with a one-time key id is never completed when the caller gave
\* no data_key: the call fails at that item.
C4_MissingDataKeyFails ==
    \A p \in 1..Len(orig) :
        (EKeyOf(p) \notin (SessionEKeys \cup {"-"}) /\ ctx.data_key = PyNone) =>
            /\ p \notin Completed
            /\ pc # "returned"

\* the result the loop computed for a completed position p
ResultAt(p) ==
    IF CallsAt(p) = {}
    THEN encode(orig[p].data)
    ELSE ddcalls[CHOOSE k \in CallsAt(p) : TRUE].result.ret

\* C5 (as claimed): after the call the caller's items have the data they had
\* before it, and the returned sequence is not the input one.
C5_InputNotMutated ==
    pc \in {"returned", "raised"} =>
        /\ \A p \in 1..Len(orig) : outData[p].data = orig[p].data
        /\ pc = "returned" => ret # InputRef

\* C5 (amended): the call works in place.  Every completed item of the
\* caller's list holds its result, an item whose plaintext logging raised holds
\* its data as bytes, the other items hold their original data, and the
\* returned sequence is the input list itself.
C5_InPlace ==
    /\ Len(outData) = Len(orig)
    /\ \A p \in 1..Len(orig) :
        outData[p].data =
            IF p \in Completed THEN ResultAt(p)
            ELSE IF pc = "raised" /\ err = "b64decode" /\ p = i + 1
                 THEN encode(orig[p].data)
                 ELSE orig[p].data
    /\ pc = "returned" => ret = InputRef
    /\ pc # "returned" => ret = "none"

\* C5 witness: the call failed part-way and left a changed first item behind
C5_Witness ==
    /\ pc = "raised"
    /\ err = "decrypt"
    /\ i >= 1
    /\ outData[1].data # orig[1].data
    /\ outData[1].data.kind = "plainstr"

\* C6: a returned sequence has the input's length, its entries are the
\* input's entries in the same order with only the data field replaced, and
\* an empty outData gives an empty sequence without a decrypt call.
C6_LengthOrderFields ==
    pc = "returned" =>
        /\ Len(outData) = Len(orig)
        /\ \A p \in 1..Len(orig) :
            /\ outData[p].iv = orig[p].iv
            /\ outData[p].encryptedDataEncryptionKey = orig[p].encryptedDataEncryptionKey
            /\ outData[p].data.chars = orig[p].data.chars
            /\ outData[p].data = ResultAt(p)
        /\ Len(orig) = 0 => (outData = <<>> /\ ddcalls = <<>>)

\* C6 witness: a returned response of three items with different data, one of
\* them left as plaintext
C6_Witness ==
    /\ pc = "returned"
    /\ Len(orig) = 3
    /\ orig[1].data # orig[2].data
    /\ orig[2].data # orig[3].data
    /\ outData[1].data.kind = "plainstr"
    /\ outData[3].data.kind = "bytes"

\* C7: a decrypt_data call that raised is the last one made, the exception
\* ended decrypted_response, nothing was returned, and the failing item and
\* those after it were not touched.
C7_FailFast ==
    \A k \in 1..Len(ddcalls) :
        ddcalls[k].result.raised =>
            /\ k = Len(ddcalls)
            /\ pc = "raised"
            /\ err = "decrypt"
            /\ ret = "none"
            /\ ddcalls[k].pos = i + 1
            /\ \A p \in (i + 1)..Len(orig) :
                /\ outData[p] = orig[p]
                /\ p > i + 1 => CallsAt(p) = {}

\* C7 witness: the decryption of the second of three items failed after the
\* first one was decrypted
C7_Witness ==
    /\ pc = "raised"
    /\ err = "decrypt"
    /\ i = 1
    /\ Len(orig) = 3
    /\ Len(ddcalls) = 2
    /\ EKeyOf(3) \in SessionEKeys

\* C10: do_decrypt is FALSE exactly when an examined item had "-"; from the
\* first "-" item on every examined item is stored as plaintext bytes with no
\* decrypt_data call, and every examined item before it got one decrypt_data
\* call.
C10_FlagNeverReset ==
    /\ do_decrypt = ~(\E k \in Examined : EKeyOf(k) = "-")
    /\ \A p \in Examined :
        IF \E k \in 1..p : EKeyOf(k) = "-"
        THEN /\ CallsAt(p) = {}
             /\ outData[p].data = encode(orig[p].data)
        ELSE Cardinality(CallsAt(p)) = 1

\* C10 witness: a decrypted item, then a "-" item, then an item with a
\* one-time key id that was left as plaintext
C10_Witness ==
    /\ pc = "returned"
    /\ Len(orig) = 3
    /\ EKeyOf(1) = "null"
    /\ EKeyOf(2) = "-"
    /\ EKeyOf(3) = "k1"
    /\ orig[3].data.chars # <<>>
    /\ outData[3].data.kind = "bytes"
    /\ Len(ddcalls) = 1

\* ------------------------------------------------------------------------
\* Properties of decrypt_data (specification SpecDD)

\* C8: empty data is returned as it is without the base64 decoder or the
\* decrypt primitive being called, for any key and iv; non-empty data makes
\* one call of the primitive, with the iv exactly when iv is not None, and the
\* primitive's output comes back as a string.
C8_DecryptData ==
    dd.pc = "done" =>
        LET r == dd.result
        IN  IF dd.data.chars = <<>>
            THEN /\ ~r.raised
                 /\ r.ret = dd.data
                 /\ r.b64 = <<>>
                 /\ r.prim = <<>>
            ELSE /\ Len(r.prim) = 1
                 /\ r.prim[1].key = dd.encryption_key
                 /\ r.prim[1].data.kind = "b64bytes"
                 /\ r.prim[1].data.chars = dd.data.chars
                 /\ r.prim[1].passes_iv = (dd.iv # PyNone)
                 /\ r.prim[1].passes_iv => r.prim[1].iv = dd.iv
                 /\ ~r.raised =>
                        r.ret = [kind |-> "plainstr", chars |-> dd.data.chars,
                                 key |-> dd.encryption_key,
                                 iv |-> IF dd.iv # PyNone THEN dd.iv ELSE DefaultIV]

\* C8 witness: a call with non-empty data and no iv that returned
C8_Witness ==
    /\ dd.pc = "done"
    /\ dd.data.chars # <<>>
    /\ dd.iv = PyNone
    /\ ~dd.result.raised

\* ------------------------------------------------------------------------
\* Properties of verify_data_hash (specification SpecVH)

\* the same character up to the case of a letter
SameLetter(c, d) ==
    \/ c = d
    \/ {c, d} \in {{"a", "A"}, {"b", "B"}, {"c", "C"},
                   {"d", "D"}, {"e", "E"}, {"f", "F"}}

CaseInsensitiveEqual(s, t) ==
    /\ Len(s) = Len(t)
    /\ \A k \in 1..Len(s) : SameLetter(s[k], t[k])

\* C9: verify_data_hash returns TRUE exactly when data_hash is the hex digest
\* of msg up to letter case, and FALSE (no exception) for any other data_hash.
C9_VerifyDataHash ==
    vh.pc = "done" =>
        /\ vh.ret \in BOOLEAN
        /\ vh.ret = CaseInsensitiveEqual(
                        byte_array_to_hex_str(compute_data_hash(vh.msg), vh.lower),
                        vh.data_hash)

\* C9 witness: a data_hash in mixed case that was accepted
C9_Witness ==
    /\ vh.pc = "done"
    /\ vh.ret = TRUE
    /\ vh.data_hash # upper(vh.data_hash)
    /\ vh.data_hash # byte_array_to_hex_str(compute_data_hash(vh.msg), TRUE)

====
